---- MODULE Spec2Model ----
(***************************************************************************)
(* Model of the hikari-code chat client: the chat history provider         *)
(* (ChatHistoryProvider.tsx, utils/chatHistory.ts) and the streaming send  *)
(* pipeline (ChatContainer.tsx handleSendMessage), with the submit gate of *)
(* ChatInput and the sidebar's session selection.                          *)
(***************************************************************************)
EXTENDS Integers, Sequences, FiniteSets, TLC

\* ------------------------------------------------------------------ bounds
MaxClock == 3          \* Date.now() ranges over 2..MaxClock
MaxSessions == 2       \* startNewChat is cut off at this many sessions
MaxMessages == 2       \* messages per session
MaxReads == 2          \* chunks the server delivers before it ends the stream
MaxLinesPerRead == 2   \* complete lines in one chunk (StreamSpec)
MaxWriteFailures == 1  \* localStorage.setItem failures in one behaviour

\* --------------------------------------------------------- program constants
Null == "null"                   \* the null of currentChatSessionId
DefaultTitle == "New Chat"
ApologyText == "Sorry, I encountered an error. Please try again."
TitleLimit == 30
Ellipsis == "..."
DataPrefix == "data: "
PrefixLen == 6

\* ------------------------------------------------------------------- inputs
Text19 == "write a hello world"
Text30 == "abcdefghijklmnopqrstuvwxyz0123"
Text31 == "abcdefghijklmnopqrstuvwxyz01234"
\* what a caller passes to addMessageToCurrentChat / updateLastAIMessage
ApiTexts == {Text30, Text31}
\* what ChatInput submits (non-empty after trim)
SendTexts == {Text19}

\* JavaScript strings as sequences of UTF-16 code units, for the texts typed
\* into ChatInput. The characters a text of the model can hold, in the order
\* of their codes: U+0020..U+005F and U+0061..U+007E
AsciiLow == " !\"#$%&'()*+,-./0123456789:;<=>?@ABCDEFGHIJKLMNOPQRSTUVWXYZ[\\]^_"
AsciiHigh == "abcdefghijklmnopqrstuvwxyz{|}~"

\* the code unit of a character of a text of the model
CodeUnitOf(c) ==
  CASE c = "\t" -> 9
    [] c = "\n" -> 10
    [] c = "\f" -> 12
    [] c = "\r" -> 13
    [] \E i \in 1..Len(AsciiLow) : SubSeq(AsciiLow, i, i) = c ->
         31 + (CHOOSE i \in 1..Len(AsciiLow) : SubSeq(AsciiLow, i, i) = c)
    [] \E i \in 1..Len(AsciiHigh) : SubSeq(AsciiHigh, i, i) = c ->
         96 + (CHOOSE i \in 1..Len(AsciiHigh) : SubSeq(AsciiHigh, i, i) = c)

\* the character of a code unit, for the code units above
CharOf(u) ==
  CASE u = 9 -> "\t"
    [] u = 10 -> "\n"
    [] u = 12 -> "\f"
    [] u = 13 -> "\r"
    [] u >= 32 /\ u <= 95 -> SubSeq(AsciiLow, u - 31, u - 31)
    [] u >= 97 /\ u <= 126 -> SubSeq(AsciiHigh, u - 96, u - 96)

CodeUnits(str) == [i \in 1..Len(str) |-> CodeUnitOf(SubSeq(str, i, i))]

RECURSIVE StringOf(_)
StringOf(units) ==
  IF units = <<>> THEN "" ELSE CharOf(Head(units)) \o StringOf(Tail(units))

\* what the user can have typed when the form is submitted: a text, or white
\* space only (space, tab, vertical tab, form feed, CR, LF, no-break space,
\* line separator, ideographic space, byte order mark)
BlankInput == <<32, 9, 11, 12, 13, 10, 160, 8232, 12288, 65279>>
SubmitInputs == {CodeUnits(t) : t \in SendTexts} \cup {BlankInput}
\* suffixes Math.random().toString(36).substring(2, 9) can produce
RandSuffixes == {"k3f9a2x"}

VARIABLES
  chatSessions,          \* useState<ChatSession[]>
  currentChatSessionId,  \* useState<string | null>
  isLoading,             \* useState(true)
  phase,                 \* "mounting" | "ready" | "crashed" (effect threw)
  store,                 \* localStorage item under CHAT_HISTORY_KEY
  hasWindow,             \* typeof window !== "undefined"
  now,                   \* Date.now()
  writeFailures,         \* setItem failures so far
  isSendingMessage,      \* useState(false) of ChatContainer
  loadingToast,          \* the "Hikari is thinking..." toast is displayed
  pc,                    \* position of handleSendMessage: idle/fetching/reading
  sendSessionId,         \* currentChatSessionId captured by the closures
  sendText,              \* the text argument of handleSendMessage
  accumulatedContent,    \* let accumulatedContent
  reads,                 \* reader.read() calls that returned a chunk
  pendingTail,           \* rest of a record the server cut at a chunk end
  errorToasts,           \* showError calls of the current / last send
  wire,                  \* what the server has sent in this send
  activeSends,           \* handleSendMessage calls between line 28 and finally
  sendTargets,           \* the sessions SendStart appended to, counted from the end
  lastOp                 \* the operation that produced this state

provVars == <<chatSessions, currentChatSessionId, isLoading, phase, store,
              hasWindow, now, writeFailures>>
sendVars == <<isSendingMessage, loadingToast, pc, sendSessionId, sendText,
              accumulatedContent, reads, pendingTail, errorToasts, wire,
              activeSends, sendTargets>>
vars == <<provVars, sendVars, lastOp>>

\* ------------------------------------------------------------ chatHistory.ts
\* localStorage values: no item, a text that is not JSON (the empty string
\* included), or a JSON document, kept as the value it denotes.
NoItem == [kind |-> "none", value |-> <<>>]
EmptyItem == [kind |-> "empty", value |-> <<>>]
GarbageItem == [kind |-> "garbage", value |-> <<>>]
JsonNullItem == [kind |-> "jsonNull", value |-> <<>>]

JSONStringify(history) == [kind |-> "jsonArray", value |-> history]

\* JSON.parse(history) throws a SyntaxError: history is a text that is not
\* JSON (the empty string included)
JSONParseThrows(item) == item.kind \in {"empty", "garbage"}

\* JSON.parse(history) where it returns: "ok" with the array, "null" for the
\* document null and for the null of an absent item (it is read as the text
\* "null"). It has no value for a text on which JSON.parse throws.
JSONParseItem(item) ==
  CASE item.kind = "jsonArray" -> [res |-> "ok", value |-> item.value]
    [] item.kind \in {"jsonNull", "none"} -> [res |-> "null", value |-> <<>>]

\* loadChatHistory without its try/catch: a text that is not JSON makes the
\* load effect throw
loadChatHistoryNoCatch(win, item) ==
  IF ~win THEN [res |-> "ok", value |-> <<>>]
  ELSE IF item.kind \in {"none", "empty"} THEN [res |-> "ok", value |-> <<>>]
  ELSE IF JSONParseThrows(item) THEN [res |-> "null", value |-> <<>>]
  ELSE JSONParseItem(item)

\* loadChatHistory: [] without window, for a falsy item, and when parse throws
loadChatHistory(win, item) ==
  IF ~win THEN [res |-> "ok", value |-> <<>>]
  ELSE IF item.kind \in {"none", "empty"} THEN [res |-> "ok", value |-> <<>>]
  ELSE IF JSONParseThrows(item) THEN [res |-> "ok", value |-> <<>>]  \* caught
  ELSE JSONParseItem(item)

\* a save whose catch block removes the item
saveChatHistoryClearsOnFailure(win, item, history, ok) ==
  IF ~win THEN item
  ELSE IF ok THEN JSONStringify(history) ELSE NoItem

\* a save that writes the newest session only
saveChatHistoryNewestOnly(win, item, history, ok) ==
  IF ~win THEN item
  ELSE IF ok THEN JSONStringify(SubSeq(history, 1, 1)) ELSE item

\* saveChatHistory: the item after the call; ok = setItem did not throw
saveChatHistory(win, item, history, ok) ==
  IF ~win THEN item
  ELSE IF ok THEN JSONStringify(history) ELSE item

createNewChatSession(t) ==
  [id |-> "chat-" \o ToString(t), title |-> DefaultTitle, messages |-> <<>>,
   createdAt |-> t, updatedAt |-> t]

generateMessageId(t, r) == "msg-" \o ToString(t) \o "-" \o r

\* ------------------------------------------------------- Index.tsx ChatInput
\* the code units String.prototype.trim strips: the WhiteSpace of ECMAScript
\* (tab, vertical tab, form feed, U+FEFF and the space separators U+0020,
\* U+00A0, U+1680, U+2000..U+200A, U+202F, U+205F, U+3000) and its
\* LineTerminator (LF, CR, U+2028, U+2029)
WhiteSpace ==
  {9, 10, 11, 12, 13, 32, 160, 5760} \cup (8192..8202)
    \cup {8232, 8233, 8239, 8287, 12288, 65279}

\* input.trim() on the code units of input: input without the white space at
\* its ends
RECURSIVE trim(_)
trim(input) ==
  IF input = <<>> THEN <<>>
  ELSE IF Head(input) \in WhiteSpace THEN trim(Tail(input))
  ELSE IF input[Len(input)] \in WhiteSpace
       THEN trim(SubSeq(input, 1, Len(input) - 1))
  ELSE input

\* a submit that looks at the text only
handleSubmitIgnoresFlag(input, isLoadingProp) == trim(input) /= <<>>

\* handleSubmit on the code units of input: onSendMessage(input) is called
\* iff input.trim() && !isLoading, where ChatContainer passes
\* isSendingMessage as isLoading
handleSubmit(input, isLoadingProp) == trim(input) /= <<>> /\ ~isLoadingProp

\* ---------------------------------------------------- ChatHistoryProvider.tsx
\* the ellipsis added from 30 characters on
TitleForOffByOne(text) ==
  SubSeq(text, 1, IF Len(text) < TitleLimit THEN Len(text) ELSE TitleLimit)
    \o (IF Len(text) >= TitleLimit THEN Ellipsis ELSE "")

\* text.substring(0, 30) + (text.length > 30 ? "..." : "")
TitleFor(text) ==
  SubSeq(text, 1, IF Len(text) < TitleLimit THEN Len(text) ELSE TitleLimit)
    \o (IF Len(text) > TitleLimit THEN Ellipsis ELSE "")

\* messages: [newMessage, ...session.messages]
AddMessagePrepends(sessions, cur, text, isUser, t, r) ==
  LET newMessage == [id |-> generateMessageId(t, r), text |-> text,
                     isUser |-> isUser, timestamp |-> t]
  IN [i \in DOMAIN sessions |->
        IF sessions[i].id = cur
        THEN [sessions[i] EXCEPT
                !.messages = <<newMessage>> \o @,
                !.updatedAt = t,
                !.title = IF Len(sessions[i].messages) = 0 /\ isUser
                          THEN TitleFor(text) ELSE @]
        ELSE sessions[i]]

\* the updater of addMessageToCurrentChat
AddMessage(sessions, cur, text, isUser, t, r) ==
  LET newMessage == [id |-> generateMessageId(t, r), text |-> text,
                     isUser |-> isUser, timestamp |-> t]
  IN [i \in DOMAIN sessions |->
        IF sessions[i].id = cur
        THEN [sessions[i] EXCEPT
                !.messages = Append(@, newMessage),
                !.updatedAt = t,
                !.title = IF Len(sessions[i].messages) = 0 /\ isUser
                          THEN TitleFor(text) ELSE @]
        ELSE sessions[i]]

\* the updater of updateLastAIMessage
UpdateLast(sessions, cur, newText, t) ==
  [i \in DOMAIN sessions |->
     LET s == sessions[i]
         lastMessageIndex == Len(s.messages)
     IN IF s.id = cur /\ lastMessageIndex >= 1
           /\ ~s.messages[lastMessageIndex].isUser
        THEN [s EXCEPT !.messages[lastMessageIndex].text = newText,
                       !.messages[lastMessageIndex].timestamp = t,
                       !.updatedAt = t]
        ELSE s]

\* chatSessions.find(...)?.messages || []
CurrentMessagesOf(sessions, cur) ==
  IF \E i \in DOMAIN sessions : sessions[i].id = cur
  THEN sessions[CHOOSE i \in DOMAIN sessions :
                  /\ sessions[i].id = cur
                  /\ \A j \in DOMAIN sessions : sessions[j].id = cur => i <= j
               ].messages
  ELSE <<>>

currentChatMessages == CurrentMessagesOf(chatSessions, currentChatSessionId)

\* ------------------------------------------------------------- wire protocol
\* The records a server can put on the stream, by kind, as wire text.
LineHel == "data: {\"content\":\"Hel\"}"
LineLo == "data: {\"content\":\"lo\"}"
LineDone == "data: {\"done\":true}"
LineErr == "data: {\"error\":\"boom\"}"
LineBad == "data: {not valid json}"

RecordKinds == {"Hel", "lo", "done", "error", "bad"}
\* the records the server may cut at the end of a chunk
CutKinds == {"Hel", "done"}

LineOf(kind) ==
  CASE kind = "Hel" -> LineHel
    [] kind = "lo" -> LineLo
    [] kind = "done" -> LineDone
    [] kind = "error" -> LineErr
    [] OTHER -> LineBad

\* the content field the server put into a record of this kind
ContentSent(kind) ==
  CASE kind = "Hel" -> "Hel"
    [] kind = "lo" -> "lo"
    [] OTHER -> ""

\* where the server may cut a data record at the end of a chunk: inside the
\* prefix, right after it, inside the payload
CutPoints == {3, PrefixLen, 12}

RECURSIVE JoinContents(_)
JoinContents(kinds) ==
  IF kinds = <<>> THEN ""
  ELSE ContentSent(Head(kinds)) \o JoinContents(Tail(kinds))

RECURSIVE JoinLines(_)
JoinLines(kinds) ==
  IF kinds = <<>> THEN ""
  ELSE LineOf(Head(kinds)) \o "\n" \o JoinLines(Tail(kinds))

RECURSIVE SeqsUpTo(_, _)
SeqsUpTo(S, n) ==
  IF n = 0 THEN {<<>>}
  ELSE LET shorter == SeqsUpTo(S, n - 1)
       IN shorter \cup {Append(q, x) : q \in shorter, x \in S}

\* --------------------------------------------------------- ChatContainer.tsx
\* chunk.split('\n')
RECURSIVE SplitFrom(_, _, _)
SplitFrom(chunk, start, i) ==
  IF i > Len(chunk) THEN <<SubSeq(chunk, start, Len(chunk))>>
  ELSE IF SubSeq(chunk, i, i) = "\n"
       THEN <<SubSeq(chunk, start, i - 1)>> \o SplitFrom(chunk, i + 1, i + 1)
       ELSE SplitFrom(chunk, start, i + 1)

SplitLines(chunk) == SplitFrom(chunk, 1, 1)

\* line.startsWith('data: ')
StartsWithData(line) ==
  Len(line) >= PrefixLen /\ SubSeq(line, 1, PrefixLen) = DataPrefix

\* JSON.parse(jsonStr) on the payloads of the protocol; any other text of the
\* model's alphabet (a fragment of a record, the empty string) is not JSON.
JSONParse(jsonStr) ==
  CASE jsonStr = "{\"content\":\"Hel\"}" ->
         [ok |-> TRUE, error |-> "", content |-> "Hel", done |-> FALSE]
    [] jsonStr = "{\"content\":\"lo\"}" ->
         [ok |-> TRUE, error |-> "", content |-> "lo", done |-> FALSE]
    [] jsonStr = "{\"done\":true}" ->
         [ok |-> TRUE, error |-> "", content |-> "", done |-> TRUE]
    [] jsonStr = "{\"error\":\"boom\"}" ->
         [ok |-> TRUE, error |-> "boom", content |-> "", done |-> FALSE]
    [] OTHER -> [ok |-> FALSE, error |-> "", content |-> "", done |-> FALSE]

\* accumulatedContent = data.content + accumulatedContent
OnLinePrepends(line, acc) ==
  IF ~StartsWithData(line) THEN [acc |-> acc, go |-> "next"]
  ELSE LET data == JSONParse(SubSeq(line, PrefixLen + 1, Len(line)))
       IN IF ~data.ok THEN [acc |-> acc, go |-> "next"]
          ELSE IF data.error /= "" THEN [acc |-> acc, go |-> "next"]
          ELSE [acc |-> data.content \o acc,
                go |-> IF data.done THEN "break" ELSE "next"]

\* accumulatedContent = data.content instead of +=
OnLineOverwrites(line, acc) ==
  IF ~StartsWithData(line) THEN [acc |-> acc, go |-> "next"]
  ELSE LET data == JSONParse(SubSeq(line, PrefixLen + 1, Len(line)))
       IN IF ~data.ok THEN [acc |-> acc, go |-> "next"]
          ELSE IF data.error /= "" THEN [acc |-> acc, go |-> "next"]
          ELSE [acc |-> IF data.content /= "" THEN data.content ELSE acc,
                go |-> IF data.done THEN "break" ELSE "next"]

\* JSON.parse outside the inner try: a parse failure leaves the loop
OnLineParseAborts(line, acc) ==
  IF ~StartsWithData(line) THEN [acc |-> acc, go |-> "next"]
  ELSE LET data == JSONParse(SubSeq(line, PrefixLen + 1, Len(line)))
       IN IF ~data.ok THEN [acc |-> acc, go |-> "throw"]
          ELSE IF data.error /= "" THEN [acc |-> acc, go |-> "next"]
          ELSE [acc |-> acc \o data.content,
                go |-> IF data.done THEN "break" ELSE "next"]

\* The body of the for loop for one line (the inner try/catch included):
\* the accumulator after it and how the loop goes on: "next", "break", or
\* "throw" when an exception leaves the inner catch.
OnLine(line, acc) ==
  IF ~StartsWithData(line) THEN [acc |-> acc, go |-> "next"]
  ELSE LET data == JSONParse(SubSeq(line, PrefixLen + 1, Len(line)))
       IN IF ~data.ok THEN [acc |-> acc, go |-> "next"]      \* parse threw, caught
          ELSE IF data.error /= "" THEN [acc |-> acc, go |-> "next"]  \* thrown, caught
          ELSE [acc |-> acc \o data.content,
                go |-> IF data.done THEN "break" ELSE "next"]

\* for (const line of lines): the accumulator after the loop, the texts passed
\* to updateLastAIMessage in order, and whether an exception left the loop
RECURSIVE ForLines(_, _, _)
ForLines(lines, acc, shown) ==
  IF lines = <<>> THEN [acc |-> acc, shown |-> shown, threw |-> FALSE]
  ELSE LET r == OnLine(Head(lines), acc)
           shown2 == IF r.acc /= acc THEN Append(shown, r.acc) ELSE shown
       IN CASE r.go = "throw" -> [acc |-> r.acc, shown |-> shown2, threw |-> TRUE]
            [] r.go = "break" -> [acc |-> r.acc, shown |-> shown2, threw |-> FALSE]
            [] OTHER -> ForLines(Tail(lines), r.acc, shown2)

\* const chunk = decoder.decode(value, { stream: true }): the streams of the
\* model are ASCII, one byte per code unit, nothing is carried between reads
Decode(value) == value

\* one iteration of while (true) with a chunk
OnChunk(value, acc) == ForLines(SplitLines(Decode(value)), acc, <<>>)

\* the updateLastAIMessage calls of one chunk, applied in order
RECURSIVE ApplyShown(_, _, _, _)
ApplyShown(sessions, cur, shown, t) ==
  IF shown = <<>> THEN sessions
  ELSE ApplyShown(UpdateLast(sessions, cur, Head(shown), t), cur, Tail(shown), t)

\* a catch block that leaves the placeholder as it is
CatchSessionsKeepsText(sessions, cur, t) == sessions

\* the flag cleared at the end of the try block instead of in finally
FinallySendingOnSuccessOnly(failed) == failed

\* the check of line 94 left out
EndOfStreamNeverFails(acc) == FALSE

\* a catch block whose updateLastAIMessage reads the id that is current now
CatchSessionsCurrent(sessions, cur, t) ==
  UpdateLast(sessions, currentChatSessionId, ApologyText, t)

\* catch (error) { showError(...); updateLastAIMessage(apology) }
CatchSessions(sessions, cur, t) == UpdateLast(sessions, cur, ApologyText, t)
CatchToasts(n) == n + 1

\* finally { dismissToast(loadingToastId); setIsSendingMessage(false) }
FinallySending(failed) == FALSE
FinallyToast(failed) == FALSE

\* if (!accumulatedContent) throw new Error("No response received from server")
EndOfStreamFails(acc) == acc = ""

\* ------------------------------------------------------------ initial state
\* a history an earlier page load saved (its timestamps are in the past)
StoredHistory ==
  << [id |-> "chat-1", title |-> "hi", createdAt |-> 1, updatedAt |-> 1,
      messages |-> << [id |-> "msg-1-a1b2c3d", text |-> "hi", isUser |-> TRUE,
                       timestamp |-> 1],
                      [id |-> "msg-1-e4f5g6h", text |-> "yo", isUser |-> FALSE,
                       timestamp |-> 1] >>],
     [id |-> "chat-0", title |-> DefaultTitle, createdAt |-> 0,
      updatedAt |-> 0, messages |-> <<>>] >>

\* a history the save effect wrote after the first step of a send, in a page
\* that was closed before the send ended
InterruptedHistory ==
  << [id |-> "chat-1", title |-> Text19, createdAt |-> 1, updatedAt |-> 1,
      messages |-> << [id |-> "msg-1-a1b2c3d", text |-> Text19,
                       isUser |-> TRUE, timestamp |-> 1],
                      [id |-> "msg-1-e4f5g6h", text |-> "", isUser |-> FALSE,
                       timestamp |-> 1] >>] >>

StoreItems ==
  {NoItem, EmptyItem, GarbageItem, JsonNullItem, JSONStringify(<<>>),
   JSONStringify(StoredHistory), JSONStringify(InterruptedHistory)}

NoWire == [concat |-> "", err |-> FALSE, bad |-> FALSE, split |-> FALSE,
           lost |-> "", done |-> FALSE, afterDone |-> FALSE]

Init ==
  /\ chatSessions = <<>>
  /\ currentChatSessionId = Null
  /\ isLoading = TRUE
  /\ phase = "mounting"
  /\ hasWindow \in BOOLEAN
  /\ store \in (IF hasWindow THEN StoreItems ELSE {NoItem})
  /\ now = 2
  /\ writeFailures = 0
  /\ isSendingMessage = FALSE
  /\ loadingToast = FALSE
  /\ pc = "idle"
  /\ sendSessionId = Null
  /\ sendText = ""
  /\ accumulatedContent = ""
  /\ reads = 0
  /\ pendingTail = ""
  /\ errorToasts = 0
  /\ wire = NoWire
  /\ activeSends = 0
  /\ sendTargets = {}
  /\ lastOp = [op |-> "mount", arg |-> "", flag |-> FALSE]

\* ------------------------------------------------------------------ actions
\* The save effect (lines 56-60) after a commit that changed chatSessions or
\* isLoading: it writes when isLoading is false; setItem may throw.
Persist(loading, sessions) ==
  IF loading
  THEN UNCHANGED <<store, writeFailures>>
  ELSE \E ok \in BOOLEAN :
         /\ ok \/ (hasWindow /\ writeFailures < MaxWriteFailures)
         /\ store' = saveChatHistory(hasWindow, store, sessions, ok)
         /\ writeFailures' = IF ok THEN writeFailures ELSE writeFailures + 1

Tick ==
  /\ now < MaxClock
  /\ now' = now + 1
  /\ UNCHANGED <<chatSessions, currentChatSessionId, isLoading, phase, store,
                 hasWindow, writeFailures, sendVars, lastOp>>

\* The load effect (lines 43-54), then the save effect of the commit it causes.
\* A stored JSON document that is no array makes history.length throw.
Initialize ==
  /\ phase = "mounting"
  /\ LET h == loadChatHistory(hasWindow, store)
     IN IF h.res = "null"
        THEN /\ phase' = "crashed"
             /\ UNCHANGED <<chatSessions, currentChatSessionId, isLoading,
                            store, writeFailures>>
        ELSE /\ phase' = "ready"
             /\ isLoading' = FALSE
             /\ IF Len(h.value) > 0
                THEN /\ chatSessions' = h.value
                     /\ currentChatSessionId' = h.value[1].id
                ELSE LET newSession == createNewChatSession(now)
                     IN /\ chatSessions' = <<newSession>>
                        /\ currentChatSessionId' = newSession.id
             /\ Persist(isLoading', chatSessions')
  /\ lastOp' = [op |-> "initialize", arg |-> "", flag |-> FALSE]
  /\ UNCHANGED <<hasWindow, now, sendVars>>

StartNewChat ==
  /\ phase = "ready"
  /\ Len(chatSessions) < MaxSessions
  /\ LET newSession == createNewChatSession(now)
     IN /\ chatSessions' = <<newSession>> \o chatSessions
        /\ currentChatSessionId' = newSession.id
  /\ Persist(isLoading, chatSessions')
  /\ lastOp' = [op |-> "startNewChat", arg |-> "", flag |-> FALSE]
  /\ UNCHANGED <<isLoading, phase, hasWindow, now, sendVars>>

\* a selection whose id need not come from the rendered list
SelectChatSessionUnchecked ==
  /\ phase = "ready"
  /\ \E id \in {chatSessions[i].id : i \in DOMAIN chatSessions} \cup {"chat-9"} :
       /\ currentChatSessionId' = id
       /\ lastOp' = [op |-> "selectChatSession", arg |-> id, flag |-> FALSE]
  /\ UNCHANGED <<chatSessions, isLoading, phase, store, hasWindow, now,
                 writeFailures, sendVars>>

\* Sidebar: handleSelectChat(session.id) for a session of the list
SelectChatSession ==
  /\ phase = "ready"
  /\ \E i \in DOMAIN chatSessions :
       /\ currentChatSessionId' = chatSessions[i].id
       /\ lastOp' = [op |-> "selectChatSession", arg |-> chatSessions[i].id,
                     flag |-> FALSE]
  /\ UNCHANGED <<chatSessions, isLoading, phase, store, hasWindow, now,
                 writeFailures, sendVars>>

\* addMessageToCurrentChat called through the context while no send is in
\* flight (handleSendMessage is its only caller in the repository)
AddMessageCall ==
  /\ phase \in {"mounting", "ready"}
  /\ pc = "idle"
  /\ \A i \in DOMAIN chatSessions :
       chatSessions[i].id = currentChatSessionId
         => Len(chatSessions[i].messages) < MaxMessages
  /\ \E text \in ApiTexts, isUser \in BOOLEAN, r \in RandSuffixes :
       /\ IF currentChatSessionId = Null
          THEN UNCHANGED <<chatSessions, store, writeFailures>>
          ELSE /\ chatSessions' = AddMessage(chatSessions, currentChatSessionId,
                                             text, isUser, now, r)
               /\ Persist(isLoading, chatSessions')
       /\ lastOp' = [op |-> "addMessage", arg |-> text, flag |-> isUser]
  /\ UNCHANGED <<currentChatSessionId, isLoading, phase, hasWindow, now,
                 sendVars>>

\* updateLastAIMessage called through the context while no send is in flight
UpdateLastCall ==
  /\ phase \in {"mounting", "ready"}
  /\ pc = "idle"
  /\ \E newText \in ApiTexts :
       /\ IF currentChatSessionId = Null
          THEN UNCHANGED <<chatSessions, store, writeFailures>>
          ELSE /\ chatSessions' = UpdateLast(chatSessions, currentChatSessionId,
                                             newText, now)
               /\ Persist(isLoading, chatSessions')
       /\ lastOp' = [op |-> "updateLast", arg |-> newText, flag |-> FALSE]
  /\ UNCHANGED <<currentChatSessionId, isLoading, phase, hasWindow, now,
                 sendVars>>

\* ChatInput.handleSubmit -> handleSendMessage(text), up to the await of fetch
SendStart ==
  /\ phase = "ready"
  /\ \A i \in DOMAIN chatSessions :
       chatSessions[i].id = currentChatSessionId
         => Len(chatSessions[i].messages) + 2 <= MaxMessages
  /\ \E input \in SubmitInputs, r1 \in RandSuffixes, r2 \in RandSuffixes :
       /\ handleSubmit(input, isSendingMessage)
       /\ LET text == StringOf(input)
          IN /\ chatSessions' =
                  AddMessage(AddMessage(chatSessions, currentChatSessionId,
                                        text, TRUE, now, r1),
                             currentChatSessionId, "", FALSE, now, r2)
             /\ sendText' = text
             /\ lastOp' = [op |-> "sendStart", arg |-> text, flag |-> FALSE]
  /\ isSendingMessage' = TRUE
  /\ loadingToast' = TRUE
  /\ pc' = "fetching"
  /\ sendSessionId' = currentChatSessionId
  /\ accumulatedContent' = ""
  /\ reads' = 0
  /\ pendingTail' = ""
  /\ errorToasts' = 0
  /\ wire' = NoWire
  /\ activeSends' = activeSends + 1
  /\ sendTargets' = {Len(chatSessions) + 1 - i : i \in
                       {j \in DOMAIN chatSessions :
                          chatSessions[j].id = currentChatSessionId}}
  /\ Persist(isLoading, chatSessions')
  /\ UNCHANGED <<currentChatSessionId, isLoading, phase, hasWindow, now>>

\* the catch block (when failed) and the finally block
Settle(failed) ==
  /\ IF failed
     THEN /\ chatSessions' = CatchSessions(chatSessions, sendSessionId, now)
          /\ errorToasts' = CatchToasts(errorToasts)
          /\ Persist(isLoading, chatSessions')
     ELSE UNCHANGED <<chatSessions, errorToasts, store, writeFailures>>
  /\ isSendingMessage' = FinallySending(failed)
  /\ loadingToast' = FinallyToast(failed)
  /\ activeSends' = activeSends - 1
  /\ pc' = "idle"

FetchOutcomes == {"reject", "status", "nobody", "ok"}

\* await fetch(...) settles: it rejects, or resolves with a non-ok status,
\* with an ok status and no body, or with an ok status and a readable body
FetchSettles ==
  /\ pc = "fetching"
  /\ \E outcome \in FetchOutcomes :
       /\ lastOp' = [op |-> "fetchSettles", arg |-> outcome, flag |-> FALSE]
       /\ IF outcome = "ok"
          THEN /\ pc' = "reading"
               /\ UNCHANGED <<chatSessions, errorToasts, store, writeFailures,
                              isSendingMessage, loadingToast, activeSends>>
          ELSE Settle(TRUE)
  /\ UNCHANGED <<currentChatSessionId, isLoading, phase, hasWindow, now,
                 sendSessionId, sendText, accumulatedContent, reads,
                 pendingTail, wire, sendTargets>>

\* the kinds of a sequence that come after a done record of it
HasAfterDone(kinds) ==
  \E i \in DOMAIN kinds : kinds[i] = "done" /\ i < Len(kinds)

\* await reader.read() resolves with a chunk: the rest of a record cut at the
\* end of the last chunk, some complete lines, and possibly the head of a
\* record cut at a cut point or before its newline (cutAt = 0: no cut;
\* cutAt = Len(line): cut before the newline)
ReadChunkOf(maxLines, cutKinds) ==
  /\ pc = "reading"
  /\ reads < MaxReads
  /\ \E kinds \in SeqsUpTo(RecordKinds, maxLines), cutKind \in cutKinds \cup {"Hel"} :
     \E cutAt \in {0} \cup (IF cutKind \in cutKinds
                           THEN CutPoints \cup {Len(LineOf(cutKind))} ELSE {}) :
       LET line == LineOf(cutKind)
           whole == IF cutAt = Len(line) THEN Append(kinds, cutKind) ELSE kinds
           value == pendingTail \o JoinLines(kinds) \o SubSeq(line, 1, cutAt)
           r == OnChunk(value, accumulatedContent)
           some(k) == \E i \in DOMAIN whole : whole[i] = k
       IN /\ cutAt = 0 => cutKind = "Hel"
          /\ pendingTail' = IF cutAt = 0 THEN ""
                            ELSE SubSeq(line, cutAt + 1, Len(line)) \o "\n"
          /\ wire' = [concat |-> wire.concat
                                   \o JoinContents(whole),
                      err |-> wire.err \/ some("error"),
                      bad |-> wire.bad \/ some("bad"),
                      split |-> wire.split \/ (cutAt > 0 /\ cutAt < Len(line)),
                      lost |-> wire.lost
                                 \o (IF cutAt > 0 /\ cutAt < Len(line)
                                     THEN ContentSent(cutKind) ELSE ""),
                      done |-> wire.done \/ some("done"),
                      afterDone |-> \/ wire.afterDone
                                    \/ (wire.done /\ whole /= <<>>)
                                    \/ HasAfterDone(whole)]
          /\ accumulatedContent' = r.acc
          /\ IF r.threw
             THEN Settle(TRUE)
             ELSE /\ pc' = "reading"
                  /\ UNCHANGED <<errorToasts, isSendingMessage, loadingToast,
                                 activeSends>>
                  /\ IF r.shown = <<>>
                     THEN UNCHANGED <<chatSessions, store, writeFailures>>
                     ELSE /\ chatSessions' = ApplyShown(chatSessions,
                                               sendSessionId, r.shown, now)
                          /\ Persist(isLoading, chatSessions')
          /\ lastOp' = [op |-> "readChunk", arg |-> "", flag |-> r.threw]
  /\ reads' = reads + 1
  /\ UNCHANGED <<currentChatSessionId, isLoading, phase, hasWindow, now,
                 sendSessionId, sendText, sendTargets>>

\* the whole program: a server that sends at most one whole record per chunk
ReadChunk == ReadChunkOf(1, {})

\* a server that sends several records per chunk and cuts records
ReadChunkCut == ReadChunkOf(MaxLinesPerRead, CutKinds)

\* await reader.read() rejects
ReadRejects ==
  /\ pc = "reading"
  /\ Settle(TRUE)
  /\ lastOp' = [op |-> "readRejects", arg |-> "", flag |-> TRUE]
  /\ UNCHANGED <<currentChatSessionId, isLoading, phase, hasWindow, now,
                 sendSessionId, sendText, accumulatedContent, reads,
                 pendingTail, wire, sendTargets>>

\* await reader.read() resolves with done: the loop ends, line 94 decides
ReadDone ==
  /\ pc = "reading"
  /\ Settle(EndOfStreamFails(accumulatedContent))
  /\ lastOp' = [op |-> "readDone", arg |-> "",
                flag |-> EndOfStreamFails(accumulatedContent)]
  /\ UNCHANGED <<currentChatSessionId, isLoading, phase, hasWindow, now,
                 sendSessionId, sendText, accumulatedContent, reads,
                 pendingTail, wire, sendTargets>>

Next ==
  \/ Tick
  \/ Initialize
  \/ StartNewChat
  \/ SelectChatSession
  \/ AddMessageCall
  \/ UpdateLastCall
  \/ SendStart
  \/ FetchSettles
  \/ ReadChunk
  \/ ReadRejects
  \/ ReadDone

Spec == Init /\ [][Next]_vars

\* One send at a time against every behaviour of the server, the user leaving
\* the sidebar alone and the history starting from an absent item.
StreamInit == Init /\ hasWindow /\ store = NoItem

StreamNext ==
  \/ Initialize
  \/ SendStart
  \/ FetchSettles
  \/ ReadChunkCut
  \/ ReadRejects
  \/ ReadDone

StreamSpec == StreamInit /\ [][StreamNext]_vars

\* the fetch and every read settle, and the stream ends
LiveSpec ==
  /\ Init /\ [][Next]_vars
  /\ WF_vars(FetchSettles)
  /\ WF_vars(ReadChunk \/ ReadRejects \/ ReadDone)

\* ------------------------------------------------------------------- claims
\* the sessions the send in flight (or the last send) appended its messages to
TargetSessions == {chatSessions[Len(chatSessions) + 1 - k] : k \in sendTargets}
LastMessage(s) == s.messages[Len(s.messages)]

\* C1: when fetch resolves with a non-success status, the send settles with the
\* session ending in the user message carrying the text and then one assistant
\* message holding the apology, and the sending flag is false.
C1_NonOkStatusEndsInApology ==
  (lastOp.op = "fetchSettles" /\ lastOp.arg = "status") =>
    /\ ~isSendingMessage
    /\ sendTargets /= {}
    /\ \A s \in TargetSessions :
         LET n == Len(s.messages)
         IN /\ n >= 2
            /\ s.messages[n - 1].isUser
            /\ s.messages[n - 1].text = sendText
            /\ ~s.messages[n].isUser
            /\ s.messages[n].text = ApologyText

C1_Witness ==
  /\ lastOp.op = "fetchSettles" /\ lastOp.arg = "status"
  /\ sendText = Text19
  /\ ~isSendingMessage
  /\ \E s \in TargetSessions : LastMessage(s).text = ApologyText

\* C2: the sending flag and the in-progress toast are set in every state of a
\* send between its start and its final step, are clear when no send is in
\* flight, and every send that set them eventually clears them.
C2_SendingFlagClearedOnEveryPath ==
  /\ [](pc /= "idle" => isSendingMessage /\ loadingToast)
  /\ [](pc = "idle" => ~isSendingMessage /\ ~loadingToast)
  /\ (isSendingMessage ~> (~isSendingMessage /\ ~loadingToast))

C2_Witness ==
  /\ lastOp.op = "readRejects"
  /\ wire.concat /= ""
  /\ pc = "idle" /\ ~isSendingMessage /\ ~loadingToast

\* C3 as stated: a stream of well-formed records, each whole in one read, no
\* error record, done last, ends with the assistant text equal to the
\* concatenation of the content fields.
C3_Pre ==
  /\ lastOp.op = "readDone"
  /\ ~wire.err /\ ~wire.bad /\ ~wire.split /\ ~wire.afterDone

C3_TextIsConcatenation ==
  C3_Pre => \A s \in TargetSessions : LastMessage(s).text = wire.concat

\* C3 amended: the text is the concatenation when that is non-empty, and the
\* apology when the records carried no content.
C3_TextIsConcatenationOrApology ==
  C3_Pre =>
    \A s \in TargetSessions :
      LastMessage(s).text =
        IF wire.concat /= "" THEN wire.concat ELSE ApologyText

C3_Witness ==
  /\ C3_Pre
  /\ reads = 2 /\ wire.done /\ wire.concat = "Hello"
  /\ \E s \in TargetSessions : LastMessage(s).text = "Hello"

\* C4: a 2xx stream that ends with nothing accumulated is a failure: the
\* assistant text is the apology and the error toast was shown once.
C4_EmptyResponseFails ==
  (lastOp.op = "readDone" /\ (accumulatedContent = "" \/ wire.concat = "")) =>
    /\ errorToasts = 1
    /\ \A s \in TargetSessions : LastMessage(s).text = ApologyText

C4_Witness ==
  /\ lastOp.op = "readDone" /\ accumulatedContent = ""
  /\ reads >= 1 /\ wire.done
  /\ errorToasts = 1
  /\ \E s \in TargetSessions : LastMessage(s).text = ApologyText

\* C5: once a record with an error field has been parsed the send has ended
\* as a failure: apology text, the error toast shown.
C5_ErrorRecordEndsSend ==
  (lastOp.op \in {"readChunk", "readDone", "readRejects"} /\ wire.err) =>
    /\ pc = "idle"
    /\ errorToasts = 1
    /\ \A s \in TargetSessions : LastMessage(s).text = ApologyText

\* C6: a data line that is not JSON does not abort the send or notify the
\* user, and the stream ends as the same stream without that line would: with
\* the concatenation of the contents, or as an empty response.
C6_MalformedLineSkipped ==
  /\ (lastOp.op = "readChunk" /\ wire.bad) =>
       ~lastOp.flag /\ pc = "reading" /\ errorToasts = 0
  /\ (lastOp.op = "readDone" /\ wire.bad /\ ~wire.err /\ ~wire.split
        /\ ~wire.afterDone) =>
       /\ errorToasts = (IF wire.concat /= "" THEN 0 ELSE 1)
       /\ \A s \in TargetSessions :
            LastMessage(s).text =
              IF wire.concat /= "" THEN wire.concat ELSE ApologyText

C6_Witness ==
  /\ lastOp.op = "readDone" /\ wire.bad /\ wire.done
  /\ ~wire.err /\ ~wire.split /\ ~wire.afterDone
  /\ wire.concat = "Hel"
  /\ errorToasts = 0
  /\ \E s \in TargetSessions : LastMessage(s).text = "Hel"

\* C7: on every failure path (rejected fetch, non-success status, unreadable
\* body, rejected read, error record, empty response) the assistant text ends
\* as the apology and exactly one error toast was shown.
FailurePathTaken ==
  \/ lastOp.op = "fetchSettles" /\ lastOp.arg /= "ok"
  \/ lastOp.op = "readRejects"
  \/ lastOp.op = "readDone" /\ (wire.err \/ accumulatedContent = "")

C7_EveryFailureEndsInApology ==
  FailurePathTaken =>
    /\ errorToasts = 1
    /\ \A s \in TargetSessions : LastMessage(s).text = ApologyText

\* the first 30 characters, followed by "..." iff the text is longer
FollowsTitleRule(title, text) ==
  IF Len(text) > TitleLimit
  THEN title = SubSeq(text, 1, TitleLimit) \o "..."
  ELSE title = text

\* C8 as stated: the title of a session follows the rule for its first user
\* message, whatever came before that message.
C8_FirstUserMessageSetsTitle ==
  \A i \in DOMAIN chatSessions :
    LET m == chatSessions[i].messages
        users == {k \in DOMAIN m : m[k].isUser}
    IN users /= {} =>
         FollowsTitleRule(chatSessions[i].title,
                          m[CHOOSE k \in users : \A j \in users : k <= j].text)

\* C8 amended: the title follows the rule for the first message when that is
\* a user message, and no call changes it otherwise.
C8_FirstMessageSetsTitle ==
  \A i \in DOMAIN chatSessions :
    LET m == chatSessions[i].messages
    IN IF Len(m) > 0 /\ m[1].isUser
       THEN FollowsTitleRule(chatSessions[i].title, m[1].text)
       ELSE chatSessions[i].title = DefaultTitle

C8_Witness ==
  /\ lastOp.op = "addMessage"
  /\ \E i \in DOMAIN chatSessions :
       LET m == chatSessions[i].messages
       IN /\ Len(m) >= 2
          /\ m[1].isUser /\ m[1].text = Text31
          /\ chatSessions[i].title = "abcdefghijklmnopqrstuvwxyz0123..."

\* the place of the current session: the first session with the current id,
\* the one the view shows; 0 when no session has it
CurrentIndex ==
  IF \E i \in DOMAIN chatSessions : chatSessions[i].id = currentChatSessionId
  THEN CHOOSE i \in DOMAIN chatSessions :
         /\ chatSessions[i].id = currentChatSessionId
         /\ \A j \in DOMAIN chatSessions :
              chatSessions[j].id = currentChatSessionId => i <= j
  ELSE 0

\* C9: updateLastAIMessage changes no session and not the current id when
\* no current session is set, when the current session has no messages and
\* when its last message is a user message; when its last message is an
\* assistant message, only the text and timestamp of that message and the
\* updatedAt of the current session change.
C9_UpdateLastFrame ==
  [][UpdateLastCall =>
       LET c == CurrentIndex
           n == IF c = 0 THEN 0 ELSE Len(chatSessions[c].messages)
           patches == /\ c /= 0 /\ n >= 1
                      /\ ~chatSessions[c].messages[n].isUser
       IN /\ currentChatSessionId' = currentChatSessionId
          /\ Len(chatSessions') = Len(chatSessions)
          /\ \A i \in DOMAIN chatSessions :
               LET s == chatSessions[i]
                   s2 == chatSessions'[i]
               IN IF patches /\ i = c
                  THEN /\ s2.id = s.id /\ s2.title = s.title
                       /\ s2.createdAt = s.createdAt
                       /\ s2.updatedAt = now
                       /\ Len(s2.messages) = n
                       /\ \A k \in 1..(n - 1) : s2.messages[k] = s.messages[k]
                       /\ s2.messages[n] = [s.messages[n] EXCEPT
                                              !.text = lastOp'.arg,
                                              !.timestamp = now]
                  ELSE s2 = s]_vars

\* what the load effect leaves for the item it found
InitResult ==
  LET fresh == \/ ~hasWindow
               \/ store.kind \in {"none", "empty", "garbage"}
               \/ store.kind = "jsonArray" /\ store.value = <<>>
  IN /\ fresh =>
          /\ Len(chatSessions') = 1
          /\ chatSessions'[1].messages = <<>>
          /\ currentChatSessionId' = chatSessions'[1].id
     /\ (hasWindow /\ store.kind = "jsonArray" /\ store.value /= <<>>) =>
          /\ chatSessions' = store.value
          /\ currentChatSessionId' = store.value[1].id

\* C10: initialize on an absent, empty or unparseable item leaves one empty
\* session, the current one; on a stored non-empty list it leaves that list
\* with its first session current; isLoading turns false only with that
\* result, and the item is not written while isLoading is true.
C10_InitializeResult ==
  [][/\ (phase = "mounting" /\ phase' /= "mounting"
           /\ (hasWindow => store.kind /= "jsonNull"))
          => ~isLoading' /\ InitResult
     /\ (isLoading /\ ~isLoading') => InitResult
     /\ isLoading' => store' = store]_vars

C10_Witness ==
  /\ lastOp.op = "initialize"
  /\ ~isLoading
  /\ chatSessions = StoredHistory
  /\ currentChatSessionId = "chat-1"

\* C11: once initialize has run, the list of sessions is never empty and the
\* current session id, when set, is the id of a session of the list, whatever
\* the user and a send in flight do.
C11_CurrentSessionExists ==
  phase = "ready" =>
    /\ Len(chatSessions) >= 1
    /\ currentChatSessionId /= Null =>
         \E i \in DOMAIN chatSessions : chatSessions[i].id = currentChatSessionId

C11_Witness ==
  /\ lastOp.op = "selectChatSession"
  /\ pc = "reading"
  /\ Len(chatSessions) = 2
  /\ currentChatSessionId /= sendSessionId
  /\ \E i \in DOMAIN chatSessions : chatSessions[i].id = currentChatSessionId

\* C12: once isLoading is false, a step that changed the sessions and whose
\* write succeeded leaves under the key the whole in-memory list, so that
\* loadChatHistory on that store returns a list equal to the one in memory;
\* while no write has failed the two agree in every state.
C12_PersistedEqualsInMemory ==
  /\ [](phase = "ready" /\ hasWindow /\ writeFailures = 0 =>
          loadChatHistory(hasWindow, store) =
            [res |-> "ok", value |-> chatSessions])
  /\ [][((chatSessions' /= chatSessions \/ isLoading' /= isLoading)
           /\ ~isLoading' /\ hasWindow /\ writeFailures' = writeFailures)
          => /\ store' = JSONStringify(chatSessions')
             /\ loadChatHistory(hasWindow, store') =
                  [res |-> "ok", value |-> chatSessions']]_vars

C12_Witness ==
  /\ lastOp.op = "readChunk"
  /\ hasWindow /\ writeFailures = 1
  /\ Len(chatSessions) = 2
  /\ accumulatedContent /= ""
  /\ store = JSONStringify(chatSessions)
  /\ loadChatHistory(hasWindow, store).value = chatSessions

\* C13: loadChatHistory returns the empty list, and throws nothing, without a
\* window, for an absent item, for a text that is not JSON and for a JSON
\* document that is no session array; so initialize always completes with
\* isLoading false.
C13_LoadDegradesToEmpty ==
  phase /= "mounting" =>
    /\ (~hasWindow \/ store.kind /= "jsonArray") =>
         loadChatHistory(hasWindow, store) = [res |-> "ok", value |-> <<>>]
    /\ phase = "ready"
    /\ ~isLoading

\* what the step named by lastOp' does to the state in memory
InMemoryEffect ==
  CASE lastOp'.op = "initialize" -> InitResult
    [] lastOp'.op = "startNewChat" ->
         /\ chatSessions' = <<createNewChatSession(now)>> \o chatSessions
         /\ currentChatSessionId' = createNewChatSession(now).id
    [] lastOp'.op = "addMessage" ->
         /\ currentChatSessionId' = currentChatSessionId
         /\ \E r \in RandSuffixes :
              chatSessions' = AddMessage(chatSessions, currentChatSessionId,
                                         lastOp'.arg, lastOp'.flag, now, r)
    [] lastOp'.op = "updateLast" ->
         /\ currentChatSessionId' = currentChatSessionId
         /\ chatSessions' = UpdateLast(chatSessions, currentChatSessionId,
                                       lastOp'.arg, now)
    [] lastOp'.op = "sendStart" ->
         /\ currentChatSessionId' = currentChatSessionId
         /\ pc' = "fetching" /\ isSendingMessage'
         /\ \E r1 \in RandSuffixes, r2 \in RandSuffixes :
              chatSessions' =
                AddMessage(AddMessage(chatSessions, currentChatSessionId,
                                      lastOp'.arg, TRUE, now, r1),
                           currentChatSessionId, "", FALSE, now, r2)
    [] lastOp'.op = "readChunk" ->
         /\ currentChatSessionId' = currentChatSessionId
         /\ pc' = "reading" /\ isSendingMessage'
         /\ accumulatedContent' /= accumulatedContent
         /\ chatSessions' = UpdateLast(chatSessions, sendSessionId,
                                       accumulatedContent', now)
    [] OTHER ->
         /\ lastOp'.op \in {"fetchSettles", "readRejects", "readDone"}
         /\ currentChatSessionId' = currentChatSessionId
         /\ pc' = "idle" /\ ~isSendingMessage'
         /\ chatSessions' = UpdateLast(chatSessions, sendSessionId,
                                       ApologyText, now)

\* C14: a write that fails, or a save without a window, raises nothing: the
\* stored item stays as it was, the step changes the sessions and the current
\* id exactly as it does when the write succeeds, and the provider and the
\* send go on.
C14_WriteFailureIsSwallowed ==
  /\ [](~hasWindow => store = NoItem /\ writeFailures = 0)
  /\ [](writeFailures > 0 => phase = "ready" /\ ~isLoading)
  /\ [][writeFailures' /= writeFailures
          => /\ store' = store
             /\ phase' = "ready"
             /\ InMemoryEffect]_vars

C14_Witness ==
  /\ lastOp.op = "readDone" /\ ~lastOp.flag
  /\ hasWindow /\ writeFailures = 1
  /\ store.kind = "jsonArray" /\ store.value /= chatSessions
  /\ \E s \in TargetSessions : LastMessage(s).text = accumulatedContent

\* C15: with the gate of ChatInput (a submit starts a send only for a text
\* that is non-empty after trimming and while the sending flag is false) at
\* most one handleSendMessage is between its first step and its finally block,
\* also when the user selects another session or starts a new chat meanwhile.
C15_AtMostOneSend ==
  /\ activeSends <= 1
  /\ activeSends = 1 <=> pc /= "idle"
  /\ activeSends = 1 =>
       \A input \in SubmitInputs : ~handleSubmit(input, isSendingMessage)

C15_Witness ==
  /\ lastOp.op = "startNewChat"
  /\ pc = "reading" /\ accumulatedContent /= ""
  /\ activeSends = 1
  /\ currentChatSessionId /= sendSessionId
  /\ CurrentMessagesOf(chatSessions, currentChatSessionId) = <<>>
  /\ ~handleSubmit(CodeUnits(Text19), isSendingMessage)

\* C16: once a record with done == true has been processed, no record that
\* the stream delivers afterwards is folded in: no later read changes the
\* accumulator or the text of the assistant message.
C16_NothingFoldedAfterDone ==
  [][(wire.done /\ pc = "reading" /\ lastOp'.op = "readChunk")
       => /\ accumulatedContent' = accumulatedContent
          /\ \A k \in sendTargets :
               LastMessage(chatSessions'[Len(chatSessions') + 1 - k]).text =
                 LastMessage(chatSessions[Len(chatSessions) + 1 - k]).text]_vars

\* a is a prefix of b
IsPrefix(a, b) == Len(a) <= Len(b) /\ SubSeq(b, 1, Len(a)) = a

\* the texts of the assistant placeholders of the send, before and after a step
TextBefore(k) == LastMessage(chatSessions[Len(chatSessions) + 1 - k]).text
TextAfter(k) == LastMessage(chatSessions'[Len(chatSessions') + 1 - k]).text

\* C17 as stated: in every step taken while a send is in flight the
\* accumulator grows by appending and the text of the assistant placeholder
\* is extended (the earlier text is a prefix of the later one).
C17_TextOnlyGrows ==
  [][pc /= "idle" =>
       /\ IsPrefix(accumulatedContent, accumulatedContent')
       /\ \A k \in sendTargets : IsPrefix(TextBefore(k), TextAfter(k))]_vars

\* C17 amended: the same, except for the step of the failure handler, which
\* replaces the text, partial content included, by the apology.
C17_TextGrowsUntilFailure ==
  [][pc /= "idle" =>
       /\ IsPrefix(accumulatedContent, accumulatedContent')
       /\ \A k \in sendTargets :
            IF errorToasts' > errorToasts
            THEN pc' = "idle" /\ TextAfter(k) = ApologyText
            ELSE /\ IsPrefix(TextBefore(k), TextAfter(k))
                 /\ TextAfter(k) \in {TextBefore(k), accumulatedContent'}]_vars

C17_Witness ==
  /\ lastOp.op = "readRejects"
  /\ reads = 2 /\ accumulatedContent = "Hello"
  /\ errorToasts = 1
  /\ \E s \in TargetSessions : LastMessage(s).text = ApologyText

\* C18: addMessageToCurrentChat leaves the current id, the number and the
\* order of the sessions as they are; with a current session set it appends
\* one message with the given text and isUser at the end of the current
\* session only, which keeps its place, id and createdAt, and changes no
\* field of any other session; without a current session, or for an id that
\* no session has, no session changes.
C18_AddMessageFrame ==
  /\ [](\A text \in ApiTexts, isUser \in BOOLEAN, r \in RandSuffixes :
          AddMessage(chatSessions, "chat-9", text, isUser, now, r) = chatSessions)
  /\ [][AddMessageCall =>
          LET c == CurrentIndex
          IN /\ currentChatSessionId' = currentChatSessionId
             /\ Len(chatSessions') = Len(chatSessions)
             /\ \A i \in DOMAIN chatSessions :
                  LET s == chatSessions[i]
                      s2 == chatSessions'[i]
                      n == Len(s.messages)
                  IN IF i = c
                     THEN /\ s2.id = s.id /\ s2.createdAt = s.createdAt
                          /\ Len(s2.messages) = n + 1
                          /\ SubSeq(s2.messages, 1, n) = s.messages
                          /\ s2.messages[n + 1].text = lastOp'.arg
                          /\ s2.messages[n + 1].isUser = lastOp'.flag
                     ELSE s2 = s]_vars

\* C19: in every step no session is removed (new ones are put in front), the
\* messages a session has stay in place, in order, and the only change to one
\* of them is to the text and timestamp of the session's last message when
\* that is an assistant message and stays the last; a user message never
\* changes.
C19_AppendOnlyHistory ==
  [][/\ Len(chatSessions') >= Len(chatSessions)
     /\ \A i \in DOMAIN chatSessions :
          LET s == chatSessions[i]
              s2 == chatSessions'[i + Len(chatSessions') - Len(chatSessions)]
              n == Len(s.messages)
          IN /\ s2.id = s.id /\ s2.createdAt = s.createdAt
             /\ Len(s2.messages) >= n
             /\ \A k \in 1..n :
                  \/ s2.messages[k] = s.messages[k]
                  \/ /\ k = n /\ Len(s2.messages) = n
                     /\ ~s.messages[k].isUser
                     /\ s2.messages[k] =
                          [s.messages[k] EXCEPT
                             !.text = s2.messages[k].text,
                             !.timestamp = s2.messages[k].timestamp]]_vars

C19_Witness ==
  /\ lastOp.op = "readChunk"
  /\ Len(chatSessions) = 2
  /\ \E s \in TargetSessions :
       /\ Len(s.messages) = 2
       /\ s.messages[1].isUser /\ s.messages[1].text = sendText
       /\ s.messages[1].timestamp < s.messages[2].timestamp
       /\ s.messages[2].text = "Hello"

\* C20: a data record the server cut between two reads is not put together
\* again: the send goes on without failure or notification, the accumulator
\* holds the contents of the records that arrived whole and nothing of the
\* cut one, and the send ends with that text, or as an empty response when
\* the whole records carried no content.
C20_SplitRecordIsLost ==
  /\ (lastOp.op = "readChunk" /\ wire.split) =>
       ~lastOp.flag /\ pc = "reading" /\ errorToasts = 0
  /\ (pc = "reading" /\ wire.split /\ ~wire.afterDone) =>
       accumulatedContent = wire.concat
  /\ (lastOp.op = "readDone" /\ wire.split /\ ~wire.afterDone) =>
       /\ errorToasts = (IF wire.concat /= "" THEN 0 ELSE 1)
       /\ \A s \in TargetSessions :
            LastMessage(s).text =
              IF wire.concat /= "" THEN wire.concat ELSE ApologyText

C20_Witness ==
  /\ lastOp.op = "readDone"
  /\ wire.split /\ wire.lost = "Hel" /\ wire.concat = ""
  /\ reads = 2 /\ pendingTail = ""
  /\ errorToasts = 1
  /\ \E s \in TargetSessions : LastMessage(s).text = ApologyText

IsEmptyAssistant(m) == ~m.isUser /\ m.text = ""

\* the send that just settled left its placeholder with a text, the whole
\* accumulated content or the apology
SettledPlaceholderHasText ==
  (lastOp.op \in {"fetchSettles", "readRejects", "readDone"} /\ pc = "idle") =>
    /\ ~isSendingMessage
    /\ sendTargets /= {}
    /\ \A s \in TargetSessions :
         /\ ~LastMessage(s).isUser
         /\ LastMessage(s).text /= ""
         /\ LastMessage(s).text =
              IF errorToasts > 0 THEN ApologyText ELSE accumulatedContent

\* the messages of the histories that initialize can find in the store (they
\* carry timestamps of an earlier page load)
MessagesOf(h) ==
  UNION {{h[i].messages[k] : k \in DOMAIN h[i].messages} : i \in DOMAIN h}
LoadedMessages == MessagesOf(StoredHistory) \cup MessagesOf(InterruptedHistory)

\* C22 as stated: a settled send leaves a non-empty text, and a session holds
\* an empty assistant message only while a send for it is in flight.
C22_EmptyOnlyWhileSending ==
  /\ SettledPlaceholderHasText
  /\ \A i \in DOMAIN chatSessions :
       \A k \in DOMAIN chatSessions[i].messages :
         IsEmptyAssistant(chatSessions[i].messages[k]) =>
           /\ pc /= "idle"
           /\ (Len(chatSessions) + 1 - i) \in sendTargets
           /\ k = Len(chatSessions[i].messages)

\* C22 amended: the same for the messages appended since the page was
\* loaded; an empty placeholder that was saved during a send and loaded by
\* initialize stays empty with no send in flight.
C22_EmptyOnlyWhileSendingOrLoaded ==
  /\ SettledPlaceholderHasText
  /\ \A i \in DOMAIN chatSessions :
       \A k \in DOMAIN chatSessions[i].messages :
         IsEmptyAssistant(chatSessions[i].messages[k]) =>
           \/ /\ pc /= "idle"
              /\ (Len(chatSessions) + 1 - i) \in sendTargets
              /\ k = Len(chatSessions[i].messages)
           \/ chatSessions[i].messages[k] \in LoadedMessages

C22_Witness ==
  /\ lastOp.op = "readDone" /\ ~lastOp.flag
  /\ reads = 2 /\ accumulatedContent = "Hello"
  /\ \A s \in TargetSessions : LastMessage(s).text = "Hello"
  /\ \E i \in DOMAIN chatSessions :
       /\ chatSessions[i] = InterruptedHistory[1]
       /\ (Len(chatSessions) + 1 - i) \notin sendTargets

\* C23: in every reachable state the sessions of the history have pairwise
\* distinct ids, also when initialize and startNewChat, or two startNewChat
\* calls, run within the same millisecond.
C23_SessionIdsDistinct ==
  \A i, j \in DOMAIN chatSessions :
    i /= j => chatSessions[i].id /= chatSessions[j].id

====
